---- MODULE Spec2Model ----
(***************************************************************************)
(* A model of worklog.py: the per-day event store (Worklog), the commands  *)
(* start / resume / stop / report that load it, mutate it, save it and     *)
(* render the report, the upload to JIRA, and the pure helpers they use.   *)
(*                                                                         *)
(* Text is a sequence of one-character strings.  A timestamp (datetime)    *)
(* and a timedelta are integers counting milliseconds; timestamp 0 is      *)
(* midnight of the day the commands run on (no --day is given, so          *)
(* worklog.when is today).                                                 *)
(***************************************************************************)
EXTENDS Integers, Sequences, FiniteSets, TLC

VARIABLES
    clock,          \* the wall clock, datetime.now()
    disk,           \* the persisted document of the day ( ~/.worklog/<day>-2.json )
    store,          \* Worklog.store of the running (or last) command
    pc,             \* "idle", or the prompt a command is blocked in
    cmd,            \* the running (or last) command
    outcome,        \* how the last command ended: "ok", "abort", "crash", or "running"
    start,          \* local `start` of on_start / on_resume / on_stop
    ticket,         \* local `ticket` of on_start / on_resume
    descriptions,   \* local `descriptions` of on_resume (the candidates shown)
    stdout,         \* what the running (or last) command wrote to sys.stdout
    jira            \* the calls the running (or last) command made on the JIRA client

vars == <<clock, disk, store, pc, cmd, outcome, start, ticket, descriptions, stdout, jira>>

(***************************************************************************)
(* Bounds of the model.                                                    *)
(***************************************************************************)
MaxEvents == 3      \* commands stop inserting once the store holds this many
MaxTicks == 2       \* the wall clock advances at most this many half minutes
MaxRetries == 1     \* bounds messages one resume prints before the model stops re-prompting

\* Python's None (an absent --at, --ago or --ticket): no text, since its one
\* element is not a character
None == <<"None">>

(***************************************************************************)
(* Text helpers: str.strip, str.lower, ' '.join                            *)
(***************************************************************************)
Whitespace == {" ", "\t", "\n"}

Upper == <<"A","B","C","D","E","F","G","H","I","J","K","L","M",
           "N","O","P","Q","R","S","T","U","V","W","X","Y","Z">>
Lower == <<"a","b","c","d","e","f","g","h","i","j","k","l","m",
           "n","o","p","q","r","s","t","u","v","w","x","y","z">>

ToLower == [c \in {Upper[i] : i \in 1..Len(Upper)} |->
                Lower[CHOOSE i \in 1..Len(Upper) : Upper[i] = c]]

lower_char(c) == IF c \in DOMAIN ToLower THEN ToLower[c] ELSE c

lower(s) == [i \in 1..Len(s) |-> lower_char(s[i])]

RECURSIVE lstrip(_)
lstrip(s) == IF s # <<>> /\ Head(s) \in Whitespace THEN lstrip(Tail(s)) ELSE s

RECURSIVE rstrip(_)
rstrip(s) ==
    IF s # <<>> /\ s[Len(s)] \in Whitespace THEN rstrip(SubSeq(s, 1, Len(s) - 1)) ELSE s

strip(s) == rstrip(lstrip(s))

(***************************************************************************)
(* now(): datetime.now() with seconds zeroed out                           *)
(***************************************************************************)
now == clock - (clock % 60000)

(***************************************************************************)
(* duration_factors, in milliseconds, and duration_re                      *)
(*   \s*(?:\s*(\d+(?:\.\d+)?)([dhm]))\s*                                   *)
(***************************************************************************)
Digits == <<"0","1","2","3","4","5","6","7","8","9">>

DigitVal == [c \in {Digits[i] : i \in 1..Len(Digits)} |->
                (CHOOSE i \in 1..Len(Digits) : Digits[i] = c) - 1]

IsDigit(c) == c \in DOMAIN DigitVal

\* factors whose day is the calendar day
duration_factors_calendar_day ==
    [d |-> 60 * 60 * 24 * 1000, h |-> 60 * 60 * 1000, m |-> 60 * 1000]

duration_factors == [d |-> 60 * 60 * 8 * 1000, h |-> 60 * 60 * 1000, m |-> 60 * 1000]

RECURSIVE SkipWhitespace(_, _)
SkipWhitespace(s, i) ==
    IF i <= Len(s) /\ s[i] \in Whitespace THEN SkipWhitespace(s, i + 1) ELSE i

RECURSIVE SkipDigits(_, _)
SkipDigits(s, i) ==
    IF i <= Len(s) /\ IsDigit(s[i]) THEN SkipDigits(s, i + 1) ELSE i

RECURSIVE int(_)
int(s) == IF s = <<>> THEN 0 ELSE 10 * int(SubSeq(s, 1, Len(s) - 1)) + DigitVal[s[Len(s)]]

RECURSIVE Pow10(_)
Pow10(k) == IF k = 0 THEN 1 ELSE 10 * Pow10(k - 1)

\* duration_re.match( s, p ): every quantifier of the pattern is greedy and none
\* can give back a character to let the rest match, so the match is the greedy
\* scan.  Yields the end of the match and its two groups, or ok = FALSE.
duration_re_match(s, p) ==
    LET a == SkipWhitespace(s, p)
        b == SkipDigits(s, a)
        hasFrac == /\ b < Len(s) /\ s[b] = "." /\ IsDigit(s[b + 1])
        c == IF hasFrac THEN SkipDigits(s, b + 1) ELSE b
    IN  IF b > a /\ c <= Len(s) /\ s[c] \in DOMAIN duration_factors
        THEN [ok |-> TRUE, end |-> SkipWhitespace(s, c + 1),
              whole |-> SubSeq(s, a, b - 1),
              frac |-> IF hasFrac THEN SubSeq(s, b + 1, c - 1) ELSE <<>>,
              unit |-> s[c]]
        ELSE [ok |-> FALSE]

\* float( match.group(1) ) * duration_factors[match.group(2)], in milliseconds.
\* The durations the model feeds have few enough decimals for the product to be a
\* whole number of milliseconds, so the division is exact.
match_milliseconds(m) ==
    ((int(m.whole) * Pow10(Len(m.frac)) + int(m.frac)) * duration_factors[m.unit])
        \div Pow10(Len(m.frac))

\* the loop over duration_re.finditer( duration ), scanning from position p
RECURSIVE finditer_sum(_, _)
finditer_sum(s, p) ==
    IF p > Len(s) THEN 0
    ELSE LET m == duration_re_match(s, p)
         IN  IF m.ok THEN match_milliseconds(m) + finditer_sum(s, m.end)
             ELSE finditer_sum(s, p + 1)

duration_to_timedelta(duration) == finditer_sum(duration, 1)

(***************************************************************************)
(* resolve_at_or_ago( args, date ): --at beats --ago beats now.  An empty  *)
(* string is falsy, like None.  worklog.when is today, whose midnight is   *)
(* timestamp 0.                                                            *)
(***************************************************************************)
Truthy(arg) == arg # None /\ arg # <<>>

RECURSIVE split(_, _)
split(s, sep) ==
    IF \E i \in 1..Len(s) : s[i] = sep
    THEN LET i == CHOOSE j \in 1..Len(s) : s[j] = sep /\ \A k \in 1..(j - 1) : s[k] # sep
         IN  <<SubSeq(s, 1, i - 1)>> \o split(SubSeq(s, i + 1, Len(s)), sep)
    ELSE <<s>>

IsInt(s) == s # <<>> /\ \A i \in 1..Len(s) : IsDigit(s[i])

\* hour, minute = args.at.split( ':' ); time( hour = int( hour ), minute = int( minute ) )
\* raises ValueError unless there are two parts, both integers, in range
at_raises(at) ==
    LET parts == split(at, ":")
    IN  \/ Len(parts) # 2
        \/ ~IsInt(parts[1]) \/ ~IsInt(parts[2])
        \/ int(parts[1]) > 23 \/ int(parts[2]) > 59

\* datetime.combine( date, start )
combine_at(at) ==
    LET parts == split(at, ":")
    IN  int(parts[1]) * 3600000 + int(parts[2]) * 60000

resolve_raises(at, ago) == Truthy(at) /\ at_raises(at)

\* a resolver that looks at --ago before --at
resolve_ago_first(at, ago) ==
    IF Truthy(ago) THEN now - duration_to_timedelta(ago)
    ELSE IF Truthy(at) THEN combine_at(at)
    ELSE now

resolve_at_or_ago(at, ago) ==
    IF Truthy(at) THEN combine_at(at)
    ELSE IF Truthy(ago) THEN now - duration_to_timedelta(ago)
    ELSE now

(***************************************************************************)
(* Task, GoHome, DummyRightNow                                             *)
(***************************************************************************)
Task(start_, ticket_, description_) ==
    [klass |-> "Task", start |-> start_, ticket |-> ticket_,
     description |-> strip(description_)]

GoHome(start_) == [klass |-> "GoHome", start |-> start_]

DummyRightNow ==
    [klass |-> "DummyRightNow", start |-> now, ticket |-> <<>>, description |-> <<>>]

\* isinstance( obj, Task ): DummyRightNow is a subclass of Task
isinstance_Task(obj) == obj.klass \in {"Task", "DummyRightNow"}

isinstance_GoHome(obj) == obj.klass = "GoHome"

\* an include_in_rollup that compares without lowering the case
include_in_rollup_case_sensitive(task) ==
    IF task.description = <<"l","u","n","c","h">> THEN FALSE
    ELSE IF task.description = <<"b","r","e","a","k">> THEN FALSE
    ELSE TRUE

\* Task.include_in_rollup
include_in_rollup(task) ==
    IF lower(task.description) = <<"l","u","n","c","h">> THEN FALSE
    ELSE IF lower(task.description) = <<"b","r","e","a","k">> THEN FALSE
    ELSE TRUE

(***************************************************************************)
(* Worklog: insert (append, then list.sort by start, which is stable),     *)
(* pairwise                                                                *)
(***************************************************************************)
\* an unstable sort step: e goes before the elements it ties with
sorted_insert_before_ties(sorted, e) ==
    LET before == SelectSeq(sorted, LAMBDA x : x.start < e.start)
        after == SelectSeq(sorted, LAMBDA x : x.start >= e.start)
    IN  before \o <<e>> \o after

\* one step of a stable sort: e goes after every element whose key is not greater
sorted_insert(sorted, e) ==
    LET before == SelectSeq(sorted, LAMBDA x : x.start <= e.start)
        after == SelectSeq(sorted, LAMBDA x : x.start > e.start)
    IN  before \o <<e>> \o after

\* list.sort( key = lambda t: t.start )
RECURSIVE sort_by_start(_)
sort_by_start(list) ==
    IF list = <<>> THEN <<>>
    ELSE sorted_insert(sort_by_start(SubSeq(list, 1, Len(list) - 1)), list[Len(list)])

\* an insert that forgets to sort
insert_append_only(st, value) == Append(st, value)

\* an insert that puts the new event in the place of those it ties with
insert_replacing_ties(st, value) ==
    sort_by_start(Append(SelectSeq(st, LAMBDA x : x.start # value.start), value))

insert(st, value) == sort_by_start(Append(st, value))

\* a pairing that closes the last event with itself instead of the DummyRightNow
pairwise_without_dummy(st) ==
    LET offset == Append(Tail(st), st[Len(st)])
    IN  [i \in 1..Len(st) |-> <<st[i], offset[i]>>]

\* zip( self.store, self.store[1:] + [DummyRightNow()] )
pairwise(st) ==
    LET offset == Append(Tail(st), DummyRightNow)
    IN  [i \in 1..Len(st) |-> <<st[i], offset[i]>>]

(***************************************************************************)
(* Persistence: KlassEncoder.default, dict_to_object, Worklog.save and the *)
(* json.load of Worklog.__init__.  A JSON object is a function from key    *)
(* strings.  Today is written as 2000-01-15, and the model's timestamps    *)
(* stay within that month.  A Python dict in the store is a record of      *)
(* klass "dict" holding the dict's items.                                  *)
(***************************************************************************)
DayMs == 24 * 3600000

encode_datetime(ts) ==
    LET inDay == ts % DayMs
    IN  [__klass__ |-> "datetime",
         year |-> 2000, month |-> 1, day |-> 15 + (ts \div DayMs),
         hour |-> inDay \div 3600000,
         minute |-> (inDay % 3600000) \div 60000,
         second |-> (inDay % 60000) \div 1000,
         microsecond |-> (inDay % 1000) * 1000]

\* obj.__dict__ with '__klass__' : type( obj ).__name__, the datetime encoded
KlassEncoder_default(obj) ==
    IF isinstance_Task(obj)
    THEN [__klass__ |-> obj.klass, start |-> encode_datetime(obj.start),
          ticket |-> obj.ticket, description |-> obj.description]
    ELSE [__klass__ |-> "GoHome", start |-> encode_datetime(obj.start)]

\* a dict is written by json itself, key by key; of the values the documents
\* of the model hold, the one under 'start' is a datetime
encode_dict(items) ==
    [k \in DOMAIN items |-> IF k = "start" THEN encode_datetime(items[k]) ELSE items[k]]

\* datetime( **d )
decode_datetime(d) ==
    (d.day - 15) * DayMs + d.hour * 3600000 + d.minute * 60000
        + d.second * 1000 + (d.microsecond \div 1000)

\* the dict the object_hook is given: json.load has applied the hook to the
\* inner objects first, so the datetime under 'start' is decoded
python_dict(d) ==
    [klass |-> "dict",
     items |-> [k \in DOMAIN d |-> IF k = "start" THEN decode_datetime(d[k]) ELSE d[k]]]

\* konstructor( **d ) raises TypeError when d holds a keyword the constructor
\* does not take: DummyRightNow() takes none
dict_to_object_raises(d) ==
    /\ "__klass__" \in DOMAIN d
    /\ d.__klass__ = "DummyRightNow"
    /\ DOMAIN d # {"__klass__"}

\* the object_hook.  globals()[klass] finds every name of the module; of
\* these, the documents of the model name Task, GoHome and DummyRightNow
dict_to_object(d) ==
    IF "__klass__" \notin DOMAIN d THEN python_dict(d)
    ELSE IF d.__klass__ = "Task"
         THEN Task(decode_datetime(d.start), d.ticket, d.description)
    ELSE IF d.__klass__ = "GoHome" THEN GoHome(decode_datetime(d.start))
    ELSE IF d.__klass__ = "DummyRightNow" THEN DummyRightNow
    ELSE python_dict(d)

save(st) ==
    [i \in 1..Len(st) |->
        IF st[i].klass = "dict" THEN encode_dict(st[i].items) ELSE KlassEncoder_default(st[i])]

\* the json.load of Worklog.__init__ raises what the object_hook raises
load_raises(document) == \E i \in 1..Len(document) : dict_to_object_raises(document[i])

load(document) == [i \in 1..Len(document) |-> dict_to_object(document[i])]

\* the key function of the sort, t.start, raises AttributeError on a dict
sort_raises(list) == \E i \in 1..Len(list) : list[i].klass = "dict"

(***************************************************************************)
(* report( worklog ): what it computes and writes.  A line holds the       *)
(* task's start, the end time, whether the end is the DummyRightNow (the   *)
(* yellow end time), the delta, the ticket and the description.            *)
(***************************************************************************)
report_line(task, next_task) ==
    [start |-> task.start, end_time |-> next_task.start,
     synthetic |-> next_task.klass = "DummyRightNow",
     delta |-> next_task.start - task.start,
     ticket |-> task.ticket, description |-> task.description]

\* a rollup that keeps the last delta of a description
rollup_overwrite(rollup, key, delta) ==
    IF key \notin DOMAIN rollup THEN (key :> delta) @@ rollup
    ELSE [rollup EXCEPT ![key] = delta]

\* rollup[key] = delta, or rollup[key] += delta
rollup_add(rollup, key, delta) ==
    IF key \notin DOMAIN rollup THEN (key :> delta) @@ rollup
    ELSE [rollup EXCEPT ![key] = @ + delta]

\* one turn of the loop over worklog.pairwise()
report_step(acc, task, next_task) ==
    IF isinstance_GoHome(task) THEN acc
    ELSE LET delta == next_task.start - task.start
         IN  [lines |-> Append(acc.lines, report_line(task, next_task)),
              total |-> IF include_in_rollup(task) THEN acc.total + delta ELSE acc.total,
              rollup |-> IF include_in_rollup(task)
                         THEN rollup_add(acc.rollup, task.description, delta)
                         ELSE acc.rollup]

RECURSIVE report_loop(_, _)
report_loop(pairs, n) ==
    IF n = 0 THEN [lines |-> <<>>, total |-> 0, rollup |-> <<>>]
    ELSE report_step(report_loop(pairs, n - 1), pairs[n][1], pairs[n][2])

\* next_task.start - task.start raises AttributeError when either is a dict
delta_raises(pairs, i) ==
    /\ ~isinstance_GoHome(pairs[i][1])
    /\ pairs[i][1].klass = "dict" \/ pairs[i][2].klass = "dict"

report_raises(worklog) ==
    \E i \in 1..Len(worklog) : delta_raises(pairwise(worklog), i)

\* what report has written when the exception ends it: the lines of the
\* tasks before, and no total
report_until_raise(worklog) ==
    LET pairs == pairwise(worklog)
        k == CHOOSE i \in 1..Len(worklog) :
                 delta_raises(pairs, i) /\ \A j \in 1..(i - 1) : ~delta_raises(pairs, j)
    IN  [kind |-> "report", entries |-> TRUE, lines |-> report_loop(pairs, k - 1).lines,
         raised |-> TRUE]

\* a pairwise whose append of the DummyRightNow reaches the store
pairwise_store_aliased(st) == Append(st, DummyRightNow)

\* self.store after pairwise(): offset is a new list, the slice store[1:], so
\* the append of the DummyRightNow leaves the store as it was
pairwise_store(st) == st

\* worklog.store after report( worklog ) or log_to_jira( worklog ), which
\* call pairwise() when there are entries
report_store(worklog) == IF Len(worklog) = 0 THEN worklog ELSE pairwise_store(worklog)

report(worklog) ==
    IF Len(worklog) = 0 THEN [kind |-> "report", entries |-> FALSE]
    ELSE IF report_raises(worklog) THEN report_until_raise(worklog)
    ELSE LET r == report_loop(pairwise(worklog), Len(worklog))
         IN  [kind |-> "report", entries |-> TRUE,
              lines |-> r.lines, total |-> r.total, rollup |-> r.rollup]

(***************************************************************************)
(* The inputs the commands are run with.                                   *)
(***************************************************************************)
AtArgs == {None, <<"0","0",":","0","0">>}

\* --at for a day whose report has time spent in it: a stop or a start can be
\* dated two minutes past midnight
RollupAtArgs == {None, <<"0","0",":","0","2">>}

AgoArgs == {None}

\* --ticket, and ' '.join( args.description )
T1 == <<"T","1">>

StartArgs ==
    {[ticket |-> None, description |-> <<"A">>],
     [ticket |-> T1, description |-> <<"A">>],
     [ticket |-> None, description |-> <<" ","B"," ">>],
     [ticket |-> T1, description |-> <<"L","u","n","c","h">>],
     [ticket |-> T1, description |-> <<" ">>]}

\* the descriptions of a day spent on two tasks, a lunch and a break
RollupStartArgs ==
    {[ticket |-> None, description |-> <<"A">>],
     [ticket |-> None, description |-> <<"B">>],
     [ticket |-> None, description |-> <<"L","u","n","c","h">>],
     [ticket |-> None, description |-> <<"b","r","E","A","K">>]}

\* what the operator types at 'Task description: '
DescriptionInputs == {<<>>, <<"A">>}

\* what the operator types at 'Which description: '
IntText(i) == IF i < 0 THEN <<"-", Digits[1 - i]>> ELSE <<Digits[i + 1]>>

SelectionInputs ==
    {IntText(i) : i \in 0..MaxEvents} \cup {IntText(0 - 1), IntText(0 - MaxEvents - 1), <<"x">>}

(***************************************************************************)
(* The state after construction: no document for the day, the clock at     *)
(* midnight, no command run yet.                                           *)
(***************************************************************************)
Init ==
    /\ clock = 0
    /\ disk = <<>>
    /\ store = <<>>
    /\ pc = "idle"
    /\ cmd = "none"
    /\ outcome = "ok"
    /\ start = 0
    /\ ticket = None
    /\ descriptions = <<>>
    /\ stdout = <<>>
    /\ jira = <<>>

\* time passes
Tick ==
    /\ clock < MaxTicks * 30000
    /\ clock' = clock + 30000
    /\ UNCHANGED <<disk, store, pc, cmd, outcome, start, ticket, descriptions, stdout, jira>>

\* the locals of a command are gone when its process has ended
Exit(outcome_) ==
    /\ outcome' = outcome_
    /\ pc' = "idle"
    /\ start' = 0
    /\ ticket' = None
    /\ descriptions' = <<>>

\* Worklog() raised: there is no worklog, and nothing was written
LoadCrash ==
    /\ store' = <<>>
    /\ stdout' = <<>>
    /\ Exit("crash")
    /\ UNCHANGED disk

\* worklog.insert( event ) raised in the sort, after the append
InsertCrash(worklog, event) ==
    /\ store' = Append(worklog, event)
    /\ Exit("crash")
    /\ UNCHANGED disk

\* worklog.insert( event ); worklog.save(); then report( worklog )
InsertSaveReport(worklog, event) ==
    /\ Len(worklog) < MaxEvents
    /\ IF sort_raises(worklog)
       THEN InsertCrash(worklog, event) /\ UNCHANGED stdout
       ELSE /\ store' = insert(worklog, event)
            /\ disk' = save(store')
            /\ stdout' = Append(stdout, report(store'))
            /\ Exit("ok")

\* except Abort: sys.stdout.write( '\n' ); then report( worklog )
AbortReport ==
    /\ stdout' = stdout \o <<[kind |-> "newline"], report(store)>>
    /\ Exit(IF report_raises(store) THEN "crash" ELSE "abort")
    /\ UNCHANGED <<clock, disk, store, cmd, jira>>

\* an exception nothing catches ends the command with a traceback
Crash ==
    /\ Exit("crash")
    /\ UNCHANGED <<disk, stdout>>

(***************************************************************************)
(* on_start                                                                *)
(***************************************************************************)
on_start(at, ago, ticket_, description) ==
    /\ pc = "idle"
    /\ cmd' = "start"
    /\ jira' = <<>>
    /\ UNCHANGED clock
    /\ IF load_raises(disk) THEN LoadCrash ELSE
       LET worklog == load(disk) IN
       IF resolve_raises(at, ago)
       THEN store' = worklog /\ stdout' = <<>> /\ Exit("crash") /\ UNCHANGED disk
       ELSE IF Len(strip(description)) = 0
       THEN /\ store' = worklog
            /\ start' = resolve_at_or_ago(at, ago)
            /\ ticket' = ticket_
            /\ descriptions' = <<>>
            /\ stdout' = <<>>
            /\ outcome' = "running"
            /\ pc' = "start_prompt"
            /\ UNCHANGED disk
       ELSE IF sort_raises(worklog)
       THEN /\ InsertCrash(worklog, Task(resolve_at_or_ago(at, ago), ticket_, description))
            /\ stdout' = <<>>
       ELSE /\ Len(worklog) < MaxEvents
            /\ store' = insert(worklog, Task(resolve_at_or_ago(at, ago), ticket_, description))
            /\ disk' = save(store')
            /\ stdout' = <<report(store')>>
            /\ Exit("ok")

\* description = input( 'Task description: ' )
start_input(description) ==
    /\ pc = "start_prompt"
    /\ UNCHANGED <<clock, cmd, jira>>
    /\ IF Len(strip(description)) = 0
       THEN UNCHANGED <<disk, store, pc, outcome, stdout, start, ticket, descriptions>>
       ELSE InsertSaveReport(store, Task(start, ticket, description))

\* a cancel that falls through to the insert and the save
start_cancel_saving ==
    /\ pc = "start_prompt"
    /\ UNCHANGED <<clock, cmd, jira>>
    /\ store' = insert(store, Task(start, ticket, <<>>))
    /\ disk' = save(store')
    /\ stdout' = stdout \o <<[kind |-> "newline"], report(store')>>
    /\ Exit("abort")

\* KeyboardInterrupt or EOFError at the prompt
start_cancel ==
    /\ pc = "start_prompt"
    /\ AbortReport

(***************************************************************************)
(* on_resume                                                               *)
(***************************************************************************)
\* [ task.description for task in worklog if isinstance( task, Task ) ]
task_descriptions(worklog) ==
    LET tasks == SelectSeq(worklog, isinstance_Task)
    IN  [i \in 1..Len(tasks) |-> tasks[i].description]

Contains(list, x) == \E i \in 1..Len(list) : list[i] = x

\* the loop over reversed( ... ) that appends each description not yet in the
\* list, run over the first n elements of the reversed list
RECURSIVE distinct_descriptions(_, _)
distinct_descriptions(reversed, n) ==
    IF n = 0 THEN <<>>
    ELSE LET sofar == distinct_descriptions(reversed, n - 1)
         IN  IF Contains(sofar, reversed[n]) THEN sofar ELSE Append(sofar, reversed[n])

Reversed(list) == [i \in 1..Len(list) |-> list[Len(list) + 1 - i]]

\* a candidate list that leaves the most recent description first
bump_nothing(list) == list

\* most_recent_description = descriptions.pop( 0 ); descriptions.append( ... )
bump_most_recent(list) == Append(Tail(list), Head(list))

candidates(worklog) ==
    LET reversed == Reversed(task_descriptions(worklog))
    IN  bump_most_recent(distinct_descriptions(reversed, Len(reversed)))

\* the lines '[idx] description' written before the prompt
candidate_lines(list) ==
    [i \in 1..Len(list) |-> [kind |-> "choice", idx |-> i - 1, description |-> list[i]]]

on_resume(at, ago) ==
    /\ pc = "idle"
    /\ cmd' = "resume"
    /\ jira' = <<>>
    /\ UNCHANGED clock
    /\ IF load_raises(disk) THEN LoadCrash ELSE
       LET worklog == load(disk) IN
       /\ UNCHANGED disk
       /\ store' = worklog
       /\ IF resolve_raises(at, ago) \/ task_descriptions(worklog) = <<>>
          THEN \* ValueError, or IndexError: pop from empty list
               stdout' = <<>> /\ Exit("crash")
          ELSE /\ start' = resolve_at_or_ago(at, ago)
               /\ ticket' = None
               /\ descriptions' = candidates(worklog)
               /\ stdout' = candidate_lines(descriptions')
               /\ outcome' = "running"
               /\ pc' = "resume_prompt"

\* int( text ): an optional sign and digits, else ValueError
int_raises(text) ==
    LET body == IF text # <<>> /\ Head(text) \in {"-", "+"} THEN Tail(text) ELSE text
    IN  ~IsInt(body)

signed_int(text) ==
    IF Head(text) = "-" THEN 0 - int(Tail(text))
    ELSE IF Head(text) = "+" THEN int(Tail(text))
    ELSE int(text)

\* descriptions[idx] raises IndexError outside -len..len-1
index_raises(list, idx) == idx >= Len(list) \/ idx < 0 - Len(list)

\* descriptions[idx]: a negative index counts from the end
list_item(list, idx) == IF idx < 0 THEN list[Len(list) + idx + 1] ELSE list[idx + 1]

\* for task in worklog: if task.description == description: ticket = task.ticket
\* an object without a description attribute raises AttributeError
ticket_loop_raises(worklog) == \E i \in 1..Len(worklog) : ~isinstance_Task(worklog[i])

\* a loop that stops at the first task of the description
RECURSIVE ticket_loop_first_match(_, _, _, _)
ticket_loop_first_match(worklog, n, description, ticket_) ==
    IF n = 0 THEN ticket_
    ELSE LET before == ticket_loop_first_match(worklog, n - 1, description, ticket_)
         IN  IF \E i \in 1..(n - 1) : worklog[i].description = description THEN before
             ELSE IF worklog[n].description = description THEN worklog[n].ticket
             ELSE before

RECURSIVE ticket_loop(_, _, _, _)
ticket_loop(worklog, n, description, ticket_) ==
    IF n = 0 THEN ticket_
    ELSE LET before == ticket_loop(worklog, n - 1, description, ticket_)
         IN  IF worklog[n].description = description THEN worklog[n].ticket ELSE before

bounds_message == [kind |-> "bounds", upto |-> Len(descriptions)]

BoundsMessages == Len(SelectSeq(stdout, LAMBDA line : line.kind = "bounds"))

\* one turn of the loop around input( 'Which description: ' )
resume_input(text) ==
    /\ pc = "resume_prompt"
    /\ UNCHANGED <<clock, cmd, jira>>
    /\ IF int_raises(text) \/ index_raises(descriptions, signed_int(text))
       THEN \* ValueError or IndexError: the bounds message, and prompt again
            /\ BoundsMessages < MaxRetries
            /\ stdout' = Append(stdout, bounds_message)
            /\ UNCHANGED <<disk, store, pc, outcome, start, ticket, descriptions>>
       ELSE IF ticket_loop_raises(store)
       THEN Crash /\ UNCHANGED store
       ELSE LET description == list_item(descriptions, signed_int(text))
            IN  InsertSaveReport(store,
                    Task(start, ticket_loop(store, Len(store), description, ticket),
                         description))

\* KeyboardInterrupt or EOFError at the prompt
resume_cancel ==
    /\ pc = "resume_prompt"
    /\ AbortReport

(***************************************************************************)
(* on_stop, on_report                                                      *)
(***************************************************************************)
on_stop(at, ago) ==
    /\ pc = "idle"
    /\ cmd' = "stop"
    /\ jira' = <<>>
    /\ UNCHANGED clock
    /\ IF load_raises(disk) THEN LoadCrash ELSE
       LET worklog == load(disk) IN
       IF resolve_raises(at, ago)
       THEN store' = worklog /\ stdout' = <<>> /\ Exit("crash") /\ UNCHANGED disk
       ELSE IF sort_raises(worklog)
       THEN InsertCrash(worklog, GoHome(resolve_at_or_ago(at, ago))) /\ stdout' = <<>>
       ELSE /\ Len(worklog) < MaxEvents
            /\ store' = insert(worklog, GoHome(resolve_at_or_ago(at, ago)))
            /\ disk' = save(store')
            /\ stdout' = <<report(store')>>
            /\ Exit("ok")

on_report ==
    /\ pc = "idle"
    /\ cmd' = "report"
    /\ jira' = <<>>
    /\ UNCHANGED clock
    /\ IF load_raises(disk) THEN LoadCrash ELSE
       LET worklog == load(disk) IN
       /\ store' = report_store(worklog)
       /\ stdout' = <<report(worklog)>>
       /\ Exit(IF report_raises(worklog) THEN "crash" ELSE "ok")
       /\ UNCHANGED disk

(***************************************************************************)
(* Duration, log_to_jira, on_upload.  A call on the JIRA client is a       *)
(* record; `raised` tells the call that ended in an exception.             *)
(***************************************************************************)
\* '{:d}'.format( n ), n >= 0
RECURSIVE format_d(_)
format_d(n) ==
    IF n < 10 THEN <<Digits[n + 1]>> ELSE format_d(n \div 10) \o <<Digits[(n % 10) + 1]>>

\* str( Duration( delta ) ): the deltas of the model are whole seconds, so
\* int( delta.total_seconds() ) is exact; divmod rounds down
Duration_str(delta) ==
    LET seconds == delta \div 1000
        hours == seconds \div 3600
        minutes == (seconds % 3600) \div 60
        h == IF hours > 0 THEN <<format_d(hours) \o <<"h">>>> ELSE <<>>
        m == IF minutes > 0 THEN <<format_d(minutes) \o <<"m">>>> ELSE <<>>
        parts == h \o m
    IN  IF Len(parts) = 2 THEN parts[1] \o <<" ">> \o parts[2]
        ELSE IF Len(parts) = 1 THEN parts[1]
        ELSE <<>>

\* the started argument: the task's start rewritten with its seconds as 00
started_of(task) == task.start - (task.start % 60000)

jira_issue(ticket_) == [call |-> "issue", ticket |-> ticket_, raised |-> FALSE]

jira_add_worklog(task, next_task) ==
    [call |-> "add_worklog", issue |-> task.ticket,
     timeSpent |-> Duration_str(next_task.start - task.start),
     started |-> started_of(task), raised |-> FALSE]

logging_line(task, next_task) ==
    [kind |-> "logging", time |-> Duration_str(next_task.start - task.start),
     ticket |-> task.ticket]

\* a loop that goes on to the later tasks after a call has raised
log_to_jira_step_continuing(acc, task, next_task, fail_at) ==
    IF isinstance_GoHome(task) \/ task.ticket = None THEN acc
    ELSE [calls |-> acc.calls \o
                      <<jira_issue(task.ticket),
                        [jira_add_worklog(task, next_task) EXCEPT
                            !.raised = (Len(acc.calls) + 2 = fail_at)]>>,
          lines |-> Append(acc.lines, logging_line(task, next_task)),
          raised |-> acc.raised \/ Len(acc.calls) + 2 = fail_at]

\* one turn of the loop over worklog.pairwise(); the fail_at-th call on the
\* client raises, as does reading an attribute a dict has not, and an
\* exception ends the loop
log_to_jira_step(acc, task, next_task, fail_at) ==
    IF acc.raised \/ isinstance_GoHome(task) THEN acc
    ELSE IF task.klass = "dict" THEN [acc EXCEPT !.raised = TRUE]   \* task.ticket
    ELSE IF task.ticket = None THEN acc
    ELSE IF next_task.klass = "dict" THEN [acc EXCEPT !.raised = TRUE]   \* next_task.start
    ELSE IF Len(acc.calls) + 1 = fail_at
    THEN [calls |-> Append(acc.calls, [jira_issue(task.ticket) EXCEPT !.raised = TRUE]),
          lines |-> acc.lines, raised |-> TRUE]
    ELSE [calls |-> acc.calls \o
                      <<jira_issue(task.ticket),
                        [jira_add_worklog(task, next_task) EXCEPT
                            !.raised = (Len(acc.calls) + 2 = fail_at)]>>,
          lines |-> Append(acc.lines, logging_line(task, next_task)),
          raised |-> Len(acc.calls) + 2 = fail_at]

RECURSIVE log_to_jira_loop(_, _, _)
log_to_jira_loop(pairs, n, fail_at) ==
    IF n = 0 THEN [calls |-> <<>>, lines |-> <<>>, raised |-> FALSE]
    ELSE log_to_jira_step(log_to_jira_loop(pairs, n - 1, fail_at),
                          pairs[n][1], pairs[n][2], fail_at)

log_to_jira(worklog, fail_at) ==
    IF Len(worklog) = 0 THEN [calls |-> <<>>, lines |-> <<>>, raised |-> FALSE]
    ELSE log_to_jira_loop(pairwise(worklog), Len(worklog), fail_at)

\* the whole command; an exception of the client is caught nowhere
on_upload(fail_at) ==
    /\ pc = "idle"
    /\ cmd' = "upload"
    /\ UNCHANGED clock
    /\ IF load_raises(disk) THEN LoadCrash /\ jira' = <<>> ELSE
       LET worklog == load(disk)
           r == log_to_jira(worklog, fail_at)
       IN  /\ store' = report_store(worklog)
           /\ jira' = r.calls
           /\ stdout' = r.lines
           /\ Exit(IF r.raised THEN "crash" ELSE "ok")
           /\ UNCHANGED disk

Start(ats, args) ==
    \E at \in ats, ago \in AgoArgs, a \in args : on_start(at, ago, a.ticket, a.description)

StartInput == \E d \in DescriptionInputs : start_input(d)

Resume == \E at \in AtArgs, ago \in AgoArgs : on_resume(at, ago)

ResumeInput == \E text \in SelectionInputs : resume_input(text)

Stop(ats) == \E at \in ats, ago \in AgoArgs : on_stop(at, ago)

Next ==
    \/ Tick
    \/ Start(AtArgs, StartArgs)
    \/ StartInput
    \/ start_cancel
    \/ Resume
    \/ ResumeInput
    \/ resume_cancel
    \/ Stop(AtArgs)
    \/ on_report

Spec == Init /\ [][Next]_vars

\* a day of start, stop and report, with the descriptions the rollup tells apart
NextRollup ==
    \/ Tick
    \/ Start(RollupAtArgs, RollupStartArgs)
    \/ Stop(RollupAtArgs)
    \/ on_report

SpecRollup == Init /\ [][NextRollup]_vars

(***************************************************************************)
(* Commands run with --at and --ago: a day on which events are dated two   *)
(* minutes past midnight and half a minute ago.                            *)
(***************************************************************************)
ResolveAtArgs == {None, <<"0","0",":","0","2">>}

ResolveAgoArgs == {None, <<"0",".","5","m">>}

ResolveStartArgs == {[ticket |-> None, description |-> <<"A">>]}

NextResolve ==
    \/ Tick
    \/ \E at \in ResolveAtArgs, ago \in ResolveAgoArgs, a \in ResolveStartArgs :
           on_start(at, ago, a.ticket, a.description)
    \/ \E at \in ResolveAtArgs, ago \in ResolveAgoArgs : on_resume(at, ago)
    \/ ResumeInput
    \/ resume_cancel
    \/ \E at \in ResolveAtArgs, ago \in ResolveAgoArgs : on_stop(at, ago)

SpecResolve == Init /\ [][NextResolve]_vars

(***************************************************************************)
(* A day of every command, upload included: a task and a lunch with a      *)
(* ticket, tasks without one (described at the prompt), and a JIRA client  *)
(* any call of which may raise.                                            *)
(***************************************************************************)
UploadStartArgs ==
    {[ticket |-> T1, description |-> <<"A">>],
     [ticket |-> T1, description |-> <<"L","u","n","c","h">>],
     [ticket |-> None, description |-> <<>>]}

\* which call on the client raises: 0 for none
UploadFailures == 0..(MaxEvents + 1)

Upload == \E fail_at \in UploadFailures : on_upload(fail_at)

NextUpload ==
    \/ Tick
    \/ Start(AtArgs, UploadStartArgs)
    \/ StartInput
    \/ start_cancel
    \/ Resume
    \/ ResumeInput
    \/ resume_cancel
    \/ Stop(AtArgs)
    \/ on_report
    \/ Upload

SpecUpload == Init /\ [][NextUpload]_vars

(***************************************************************************)
(* Commands run on a day whose document was not written by them: it holds  *)
(* a record of a kind this program does not know (a Meeting), a record     *)
(* without a __klass__, or a record whose __klass__ names something of the *)
(* program that is not a stored event (DummyRightNow).                     *)
(***************************************************************************)
Meeting == [__klass__ |-> "Meeting", start |-> encode_datetime(0), room |-> <<"R">>]

CodecDocuments ==
    {<<>>,
     <<Meeting>>,
     <<KlassEncoder_default(Task(0, T1, <<"A">>)), Meeting>>,
     <<[room |-> <<"R">>]>>,
     <<[__klass__ |-> "DummyRightNow"]>>}

CodecStartArgs ==
    {[ticket |-> T1, description |-> <<"A">>],
     [ticket |-> None, description |-> <<>>]}

InitCodec ==
    /\ clock = 0
    /\ disk \in CodecDocuments
    /\ store = <<>>
    /\ pc = "idle"
    /\ cmd = "none"
    /\ outcome = "ok"
    /\ start = 0
    /\ ticket = None
    /\ descriptions = <<>>
    /\ stdout = <<>>
    /\ jira = <<>>

NextCodec ==
    \/ Tick
    \/ Start(AtArgs, CodecStartArgs)
    \/ StartInput
    \/ start_cancel
    \/ Stop(AtArgs)
    \/ on_report
    \/ Upload

SpecCodec == InitCodec /\ [][NextCodec]_vars

(***************************************************************************)
(* Stops dated by --ago: the durations are made of pieces, each a          *)
(* component (a number and a unit) or text that is none, and a piece has   *)
(* the time its component stands for.                                      *)
(***************************************************************************)
Piece(text_, milliseconds_) == [text |-> text_, milliseconds |-> milliseconds_]

OneDay == Piece(<<"1","d">>, 8 * 3600000)
FourHours == Piece(<<"4","h">>, 4 * 3600000)
ThirtyMinutes == Piece(<<"3","0","m">>, 30 * 60000)
HalfAnHour == Piece(<<"0",".","5","h">>, 30 * 60000)
Blank == Piece(<<" ">>, 0)
Garbage == Piece(<<"g","a","r","b","a","g","e">>, 0)

DurationPieces == {OneDay, HalfAnHour, Garbage}

\* up to two pieces, and the examples '1d 4h 30m' and '4h30m'
DurationInputs ==
    {<<>>} \cup {<<p>> : p \in DurationPieces} \cup (DurationPieces \X DurationPieces)
        \cup {<<OneDay, Blank, FourHours, Blank, ThirtyMinutes>>, <<FourHours, ThirtyMinutes>>}

RECURSIVE JoinPieces(_)
JoinPieces(pieces) ==
    IF pieces = <<>> THEN <<>> ELSE Head(pieces).text \o JoinPieces(Tail(pieces))

StopAgo == \E pieces \in DurationInputs : on_stop(None, JoinPieces(pieces))

NextDuration ==
    \/ Tick
    \/ StopAgo

SpecDuration == Init /\ [][NextDuration]_vars

(***************************************************************************)
(* Vocabulary of the properties.                                           *)
(***************************************************************************)
RemoveAt(list, i) == SubSeq(list, 1, i - 1) \o SubSeq(list, i + 1, Len(list))

IsSorted(list) == \A i, j \in 1..Len(list) : i < j => list[i].start <= list[j].start

\* new is old with one event put in at a place where everything before it is not
\* later and everything after it is later: old's order is kept, and the new
\* event follows the events it ties with
IsStableInsertion(old, new) ==
    \E i \in 1..Len(new) :
        /\ RemoveAt(new, i) = old
        /\ \A j \in 1..(i - 1) : new[j].start <= new[i].start
        /\ \A j \in (i + 1)..Len(new) : new[j].start > new[i].start

\* the states of the day (spec section 4.5)
CLOSED(list) == list = <<>> \/ list[Len(list)].klass = "GoHome"

OPEN(list) == list # <<>> /\ list[Len(list)].klass = "Task"

\* the step ends a command of this name with this outcome
Ends(name, how) ==
    /\ clock' = clock
    /\ pc' = "idle"
    /\ cmd' = name
    /\ outcome' = how

(***************************************************************************)
(* C1: after any sequence of start, resume and stop commands the stored    *)
(* events are sorted ascending by timestamp, and events with equal         *)
(* timestamps are in insertion order: every step leaves the store and the  *)
(* document sorted, and a step that stores an event keeps the order of     *)
(* the events already there and puts the new one behind those it ties with.*)
(***************************************************************************)
C1_SortedStable ==
    [][/\ IsSorted(store')
       /\ IsSorted(load(disk'))
       /\ store' # store => IsStableInsertion(store, store')]_vars

\* a stop back-dated between a task it ties with and a later task
C1_Witness ==
    /\ cmd = "stop" /\ outcome = "ok"
    /\ Len(store) = 3
    /\ store[1].klass = "Task" /\ store[2].klass = "GoHome" /\ store[3].klass = "Task"
    /\ store[1].start = store[2].start /\ store[2].start < store[3].start

(***************************************************************************)
(* C2: deriving the intervals of the stored events at the current time     *)
(* gives one interval per stored TaskStart, in stored order; it ends at    *)
(* the start of the next stored event, or at now and synthetic when the    *)
(* TaskStart is the last stored event; no DayEnd opens an interval.        *)
(***************************************************************************)
TaskIndices(list) == {i \in 1..Len(list) : list[i].klass = "Task"}

\* the index of the k-th TaskStart
NthTask(list, k) ==
    CHOOSE i \in TaskIndices(list) : Cardinality({j \in TaskIndices(list) : j <= i}) = k

C2_Intervals ==
    store # <<>> =>
        LET lines == report(store).lines
        IN  /\ Len(lines) = Cardinality(TaskIndices(store))
            /\ \A k \in 1..Len(lines) :
                    LET i == NthTask(store, k)
                    IN  /\ lines[k].start = store[i].start
                        /\ lines[k].description = store[i].description
                        /\ lines[k].ticket = store[i].ticket
                        /\ lines[k].synthetic = (i = Len(store))
                        /\ lines[k].end_time =
                               IF i < Len(store) THEN store[i + 1].start ELSE now

\* TaskStart A, DayEnd, TaskStart B: the example of the claim
C2_Witness ==
    /\ Len(store) = 3
    /\ store[1].klass = "Task" /\ store[1].description = <<"A">>
    /\ store[2].klass = "GoHome"
    /\ store[3].klass = "Task" /\ store[3].description = <<"B">>
    /\ store[1].start < store[3].start
    /\ Len(report(store).lines) = 2
    /\ cmd = "report"

StartCompletes == clock' = clock /\ cmd' = "start" /\ pc' = "idle"

NewTaskIsLatest ==
    LET n == Len(store')
    IN  /\ n = Len(store) + 1
        /\ RemoveAt(store', n) = store
        /\ OPEN(store')
        /\ OPEN(store) =>
              /\ report(store').lines[Len(report(store').lines) - 1].end_time = store'[n].start
              /\ ~report(store').lines[Len(report(store').lines) - 1].synthetic

C5_ResumeActsLikeStart ==
    [][(pc = "resume_prompt" /\ pc' = "idle" /\ outcome' # "abort") =>
        /\ outcome' = "ok"
        /\ \E i \in 1..Len(store') :
              /\ RemoveAt(store', i) = store
              /\ store'[i].klass = "Task"
              /\ Contains(descriptions, store'[i].description)
        /\ disk' = save(store')
        /\ stdout'[Len(stdout')] = report(store')]_vars

(***************************************************************************)
(* C6: a cancel at the prompt of start or of resume stores nothing and     *)
(* saves nothing, and the report of the unchanged model is rendered: from  *)
(* the load to the end of a cancelled command the document stays what it   *)
(* was and the store stays what was loaded.                                *)
(***************************************************************************)
C6_CancelIsNoOp ==
    [][(pc' # "idle" \/ (pc # "idle" /\ outcome' = "abort")) =>
        /\ disk' = disk
        /\ store' = load(disk)
        /\ outcome' = "abort" =>
              /\ Len(stdout') = Len(stdout) + 2
              /\ stdout'[Len(stdout')] = report(load(disk))]_vars

\* a resume cancelled after a rejected selection, with events stored
C6_Witness ==
    /\ cmd = "resume" /\ outcome = "abort"
    /\ Len(store) >= 2
    /\ disk = save(store)
    /\ stdout[Len(stdout)].kind = "report"
    /\ \E i \in 1..Len(stdout) : stdout[i].kind = "bounds"

(***************************************************************************)
(* C7: in resume, no selection that is not an integer in 0 .. n-1, n the   *)
(* number of candidates shown, does anything but print the bounds message  *)
(* and prompt again.                                                       *)
(***************************************************************************)
InRange(text, n) == \E i \in 0..(n - 1) : text = IntText(i)

Rejects(text) ==
    /\ resume_input(text)
    /\ pc' = "resume_prompt"
    /\ stdout' = Append(stdout, bounds_message)
    /\ disk' = disk
    /\ store' = store

C7_OutOfRangeRejected ==
    pc = "resume_prompt" =>
        \A text \in SelectionInputs :
            (~InRange(text, Len(descriptions)) /\ ENABLED resume_input(text))
                => ENABLED Rejects(text)

(***************************************************************************)
(* C8: the candidates resume offers are the distinct descriptions of the   *)
(* stored TaskStarts, each once, the more recently used first (by the      *)
(* place of its last occurrence in the sorted store), except that the most *)
(* recently used one comes last.                                           *)
(***************************************************************************)
\* the place of the last stored TaskStart with this description
LastUse(list, description) ==
    CHOOSE i \in TaskIndices(list) :
        /\ list[i].description = description
        /\ \A j \in TaskIndices(list) : list[j].description = description => j <= i

C8_Candidates ==
    pc = "resume_prompt" =>
        LET n == Len(descriptions)
        IN  /\ {descriptions[i] : i \in 1..n} = {store[i].description : i \in TaskIndices(store)}
            /\ \A i, j \in 1..n : i # j => descriptions[i] # descriptions[j]
            /\ \A i \in 1..(n - 1) :
                   LastUse(store, descriptions[i]) < LastUse(store, descriptions[n])
            /\ \A i, j \in 1..(n - 1) :
                   i < j => LastUse(store, descriptions[i]) > LastUse(store, descriptions[j])

\* three candidates, the most recently used description listed last
C8_Witness ==
    /\ pc = "resume_prompt"
    /\ Len(descriptions) = 3
    /\ descriptions[3] = store[3].description
    /\ descriptions[1] = store[2].description

(***************************************************************************)
(* C9: the TaskStart a resume stores carries the ticket of the last stored *)
(* TaskStart (the latest one) with the description selected.               *)
(***************************************************************************)
C9_ResumeReusesTicket ==
    [][(pc = "resume_prompt" /\ Ends("resume", "ok")) =>
        \E i \in 1..Len(store') :
            /\ RemoveAt(store', i) = store
            /\ store'[i].klass = "Task"
            /\ store'[i].ticket = store[LastUse(store, store'[i].description)].ticket]_vars

\* the description resumed was used with a ticket and, later, without one
C9_Witness ==
    /\ cmd = "resume" /\ outcome = "ok"
    /\ Len(store) = 3
    /\ store[1].description = store[2].description
    /\ store[2].description = store[3].description
    /\ store[1].ticket = T1 /\ store[2].ticket = None /\ store[3].ticket = None
    /\ store[2].start < store[3].start

(***************************************************************************)
(* C10: in a report, an interval whose description is "lunch" or "break"   *)
(* in any letter case adds to neither the rollup nor the grand total;      *)
(* every other interval's elapsed time is added to the grand total and to  *)
(* the rollup entry of its description.                                    *)
(***************************************************************************)
SameLetter(c, small, capital) == c = small \/ c = capital

IsLunchOrBreak(d) ==
    /\ Len(d) = 5
    /\ \/ /\ SameLetter(d[1], "l", "L") /\ SameLetter(d[2], "u", "U")
          /\ SameLetter(d[3], "n", "N") /\ SameLetter(d[4], "c", "C")
          /\ SameLetter(d[5], "h", "H")
       \/ /\ SameLetter(d[1], "b", "B") /\ SameLetter(d[2], "r", "R")
          /\ SameLetter(d[3], "e", "E") /\ SameLetter(d[4], "a", "A")
          /\ SameLetter(d[5], "k", "K")

\* the sum of the deltas of the lines whose places are in the set
RECURSIVE SumDeltas(_, _)
SumDeltas(lines, places) ==
    IF places = {} THEN 0
    ELSE LET i == CHOOSE x \in places : TRUE
         IN  lines[i].delta + SumDeltas(lines, places \ {i})

C10_Exclusion ==
    store # <<>> =>
        LET r == report(store)
            counted == {i \in 1..Len(r.lines) : ~IsLunchOrBreak(r.lines[i].description)}
        IN  /\ r.total = SumDeltas(r.lines, counted)
            /\ DOMAIN r.rollup = {r.lines[i].description : i \in counted}
            /\ \A d \in DOMAIN r.rollup :
                   r.rollup[d] =
                       SumDeltas(r.lines, {i \in counted : r.lines[i].description = d})
            /\ \A i \in 1..Len(r.lines) :
                   r.lines[i].delta = r.lines[i].end_time - r.lines[i].start

\* a reported day with time spent on a Lunch or a bREAK and on a task
C10_Witness ==
    /\ cmd = "report"
    /\ store # <<>>
    /\ stdout = <<report(store)>>
    /\ \E i, j \in 1..Len(report(store).lines) :
          /\ IsLunchOrBreak(report(store).lines[i].description)
          /\ report(store).lines[i].description \notin
                {<<"l","u","n","c","h">>, <<"b","r","e","a","k">>}
          /\ report(store).lines[i].delta > 0
          /\ ~IsLunchOrBreak(report(store).lines[j].description)
          /\ report(store).lines[j].delta > 0
          /\ report(store).total = report(store).lines[j].delta

(***************************************************************************)
(* C11: every timestamp the resolver produces, and so the start of every   *)
(* event that start, resume or stop store, has its seconds and             *)
(* sub-seconds zero, whatever --at, --ago (fractional values such as 0.5m  *)
(* included) and the current time are.                                     *)
(***************************************************************************)
C11_MinutePrecision ==
    /\ \A i \in 1..Len(store) : store[i].start % 60000 = 0
    /\ pc # "idle" => start % 60000 = 0

(***************************************************************************)
(* C12: with --at HH:MM the resolved timestamp is the day combined with    *)
(* HH:MM, whatever the wall clock and --ago are; --ago counts only without *)
(* --at, and now only without both.                                        *)
(***************************************************************************)
\* the time of day HH:MM names
HourMinute(at) ==
    ((DigitVal[at[1]] * 10 + DigitVal[at[2]]) * 60 + DigitVal[at[4]] * 10 + DigitVal[at[5]])
        * 60000

\* what the --ago argument of the day's commands amounts to: half a minute
AgoAmount(ago) == 60000 \div 2

Resolved(at, ago) ==
    IF at # None THEN HourMinute(at)
    ELSE IF ago # None THEN (clock - (clock % 60000)) - AgoAmount(ago)
    ELSE clock - (clock % 60000)

\* the step stores this event and no other
Stores(event) == \E i \in 1..Len(store') : RemoveAt(store', i) = store /\ store'[i] = event

Intervals(list) == IF list = <<>> THEN <<>> ELSE report(list).lines

AddWorklogCalls(calls) == SelectSeq(calls, LAMBDA c : c.call = "add_worklog")

\* the log-work call that forwards this interval
Forwards(c, line) ==
    /\ c.call = "add_worklog"
    /\ c.issue = line.ticket
    /\ c.started = line.start
    /\ c.timeSpent = Duration_str(line.end_time - line.start)

C13_UploadsTicketedNotExcluded ==
    [][Ends("upload", "ok") =>
        LET wanted == SelectSeq(Intervals(load(disk)),
                                LAMBDA l : l.ticket # None /\ ~IsLunchOrBreak(l.description))
            made == AddWorklogCalls(jira')
        IN  /\ Len(made) = Len(wanted)
            /\ \A k \in 1..Len(made) : Forwards(made[k], wanted[k])
            /\ disk' = disk
            /\ store' = load(disk)]_vars

(***************************************************************************)
(* C14: when a call of an upload fails the command ends with the failure:  *)
(* the calls before it are those of an upload without failure and remain   *)
(* made, the failing call is made once and is the last call, and the       *)
(* document is unchanged.                                                  *)
(***************************************************************************)
C14_FailureEndsUpload ==
    [][Ends("upload", "crash") =>
        LET ticketed == SelectSeq(Intervals(load(disk)), LAMBDA l : l.ticket # None)
            n == Len(jira')
        IN  /\ n >= 1 /\ n <= 2 * Len(ticketed)
            /\ \A i \in 1..n : jira'[i].raised <=> i = n
            /\ \A i \in 1..n :
                  IF i % 2 = 1
                  THEN jira'[i].call = "issue" /\ jira'[i].ticket = ticketed[(i + 1) \div 2].ticket
                  ELSE Forwards(jira'[i], ticketed[i \div 2])
            /\ Len(stdout') = n \div 2
            /\ disk' = disk
            /\ store' = load(disk)]_vars

\* the second log-work call of a day of three ticketed tasks failed
C14_Witness ==
    /\ cmd = "upload" /\ outcome = "crash"
    /\ Len(store) = 3
    /\ \A i \in 1..3 : store[i].klass = "Task" /\ store[i].ticket # None
    /\ Len(jira) = 4
    /\ jira[4].call = "add_worklog" /\ jira[4].raised
    /\ ~jira[2].raised
    /\ disk = save(store)

(***************************************************************************)
(* C15: a report changes neither the stored events nor the document: the   *)
(* store after it is the store that was loaded, the DummyRightNow is in    *)
(* neither, and deriving the intervals again, any number of times at the   *)
(* same time, gives the same intervals.                                    *)
(***************************************************************************)
NoSentinel(list) == \A i \in 1..Len(list) : list[i].klass # "DummyRightNow"

C15_ReportLeavesModel ==
    [][Ends("report", "ok") =>
        /\ store' = load(disk)
        /\ disk' = disk
        /\ NoSentinel(store') /\ NoSentinel(load(disk'))
        /\ pairwise_store(store') = store'
        /\ pairwise(pairwise_store(store')) = pairwise(load(disk))
        /\ stdout' = <<report(pairwise_store(store'))>>]_vars

\* a report of a day with an open task, whose interval ends at the sentinel
C15_Witness ==
    /\ cmd = "report" /\ outcome = "ok"
    /\ Len(store) = 2
    /\ OPEN(store)
    /\ stdout[1].entries
    /\ stdout[1].lines[Len(stdout[1].lines)].synthetic
    /\ disk = save(store)

(***************************************************************************)
(* C16: the store only grows: a start, resume or stop that succeeds adds   *)
(* exactly one event and leaves the events stored before with their fields *)
(* and in their order; every other step (a report, an upload, a cancelled  *)
(* or failed command, a prompt) leaves the stored events as they were.     *)
(***************************************************************************)
Succeeds == \E name \in {"start", "resume", "stop"} : Ends(name, "ok")

C16_AppendOnly ==
    [][/\ Succeeds =>
            /\ Len(disk') = Len(disk) + 1
            /\ \E i \in 1..Len(disk') : RemoveAt(disk', i) = disk
            /\ \E i \in 1..Len(store') : RemoveAt(store', i) = load(disk)
            /\ store' = load(disk')
       /\ ~Succeeds => (disk' = disk /\ store' = load(disk))]_vars

\* a resume that succeeded on a day of two events of one timestamp
C16_Witness ==
    /\ cmd = "resume" /\ outcome = "ok"
    /\ Len(store) = 3
    /\ \E i, j \in 1..3 : i # j /\ store[i].start = store[j].start
    /\ disk = save(store)

(***************************************************************************)
(* C17 as claimed: a document that was saved loads as the events that were *)
(* saved, field for field; a record whose __klass__ names neither variant  *)
(* is loaded as an opaque record, its tag and fields intact, and the next  *)
(* save writes it back unchanged.                                          *)
(***************************************************************************)
IsVariant(record) ==
    "__klass__" \in DOMAIN record /\ record.__klass__ \in {"Task", "GoHome"}

Saves == disk' # disk

\* the step is a command that loads the document and does not save
LoadsOnly == pc = "idle" /\ clock' = clock /\ ~Saves

C17_RoundTripAndOpaque ==
    [][/\ Saves => (~load_raises(disk') /\ load(disk') = store')
       /\ LoadsOnly =>
             \A i \in 1..Len(disk) :
                 ~IsVariant(disk[i]) =>
                     /\ Len(store') >= i
                     /\ store'[i].klass = "dict"
                     /\ save(<<store'[i]>>) = <<disk[i]>>
       /\ Saves =>
             \A i \in 1..Len(disk) :
                 ~IsVariant(disk[i]) => \E j \in 1..Len(disk') : disk'[j] = disk[i]]_vars

(***************************************************************************)
(* C18: the duration parser returns the sum, over the components matched,  *)
(* of number times factor, with d = 8 hours, h = 1 hour, m = 1 minute;     *)
(* text that is no component adds nothing and raises nothing:              *)
(* "1d 4h 30m" is 12h30m, "0.5h" is 30m, "" and "garbage" are 0.           *)
(***************************************************************************)
RECURSIVE SumPieces(_)
SumPieces(pieces) ==
    IF pieces = <<>> THEN 0 ELSE Head(pieces).milliseconds + SumPieces(Tail(pieces))

C18_DurationIsSumOfComponents ==
    [][/\ \A pieces \in DurationInputs :
             (on_stop(None, JoinPieces(pieces)) /\ outcome' = "ok") =>
                 Stores(GoHome((clock - (clock % 60000)) - SumPieces(pieces)))
       /\ duration_to_timedelta(<<>>) = 0
       /\ duration_to_timedelta(Garbage.text) = 0
       /\ duration_to_timedelta(HalfAnHour.text) = 30 * 60000
       /\ duration_to_timedelta(<<"1","d"," ","4","h"," ","3","0","m">>)
              = 12 * 3600000 + 30 * 60000]_vars

\* a stop dated '1d 4h 30m' ago: twelve and a half hours before midnight
C18_Witness ==
    /\ cmd = "stop" /\ outcome = "ok"
    /\ clock < 60000
    /\ \E i \in 1..Len(store) : store[i].start = 0 - (12 * 3600000 + 30 * 60000)

(***************************************************************************)
(* C19: the intervals derived from the stored events hold at most one      *)
(* synthetic interval; there is one exactly when the day is OPEN, and it   *)
(* is the interval of the last stored event; a CLOSED day has none.        *)
(***************************************************************************)
Synthetic(lines) == {k \in 1..Len(lines) : lines[k].synthetic}

C19_OneSyntheticWhenOpen ==
    store # <<>> =>
        LET lines == report(store).lines
        IN  /\ Cardinality(Synthetic(lines)) <= 1
            /\ Cardinality(Synthetic(lines)) = 1 <=> OPEN(store)
            /\ OPEN(store) =>
                  /\ Synthetic(lines) = {Len(lines)}
                  /\ lines[Len(lines)].start = store[Len(store)].start
                  /\ lines[Len(lines)].description = store[Len(store)].description
                  /\ lines[Len(lines)].end_time = clock - (clock % 60000)
            /\ CLOSED(store) => Synthetic(lines) = {}

\* an OPEN day of two tasks with a stop between them
C19_Witness ==
    /\ cmd = "start" /\ outcome = "ok"
    /\ Len(store) = 3
    /\ store[1].klass = "Task" /\ store[2].klass = "GoHome" /\ store[3].klass = "Task"
    /\ store[2].start < store[3].start
    /\ Synthetic(report(store).lines) = {2}

(***************************************************************************)
(* C20: in the report of a day with events, the grand total is the sum of  *)
(* the rollup's entries, and the entry of a description is the sum of the  *)
(* elapsed times of the intervals of that description, lunch and break     *)
(* left out.                                                               *)
(***************************************************************************)
RECURSIVE SumEntries(_, _)
SumEntries(rollup, keys) ==
    IF keys = {} THEN 0
    ELSE LET key == CHOOSE x \in keys : TRUE
         IN  rollup[key] + SumEntries(rollup, keys \ {key})

RECURSIVE SumElapsed(_, _, _)
SumElapsed(lines, n, description) ==
    IF n = 0 THEN 0
    ELSE SumElapsed(lines, n - 1, description)
            + (IF lines[n].description = description /\ ~IsLunchOrBreak(description)
               THEN lines[n].end_time - lines[n].start
               ELSE 0)

C20_TotalIsSumOfRollup ==
    store # <<>> =>
        LET r == report(store)
        IN  /\ r.total = SumEntries(r.rollup, DOMAIN r.rollup)
            /\ \A d \in DOMAIN r.rollup : r.rollup[d] = SumElapsed(r.lines, Len(r.lines), d)

\* a task started at 00:00 and resumed a minute later, stopped at 00:02: its
\* two minutes are the grand total and the one entry of the rollup
C20_Witness ==
    /\ cmd = "stop" /\ outcome = "ok"
    /\ Len(store) = 3
    /\ store[1].klass = "Task" /\ store[1].start = 0
    /\ store[2].klass = "Task" /\ store[2].start = 60000
    /\ store[1].description = store[2].description
    /\ store[3].klass = "GoHome" /\ store[3].start = 120000
    /\ report(store).total = 120000
    /\ DOMAIN report(store).rollup = {store[1].description}
    /\ report(store).rollup[store[1].description] = 120000

(***************************************************************************)
(* C21: whatever the order and the timestamps with which start and stop    *)
(* stored the events, every derived interval that is not synthetic has an  *)
(* elapsed time that is not negative: it does not end before its task      *)
(* starts.                                                                 *)
(***************************************************************************)
C21_ElapsedNotNegative ==
    store # <<>> =>
        \A k \in 1..Len(report(store).lines) :
            LET line == report(store).lines[k]
            IN  ~line.synthetic => (line.end_time >= line.start /\ line.delta >= 0)

\* a stop dated now, stored after a task dated later than now and put before
\* it: the first task ends at the stop
C21_Witness ==
    /\ cmd = "stop" /\ outcome = "ok"
    /\ Len(store) = 3
    /\ store[1].klass = "Task" /\ store[1].start = 0
    /\ store[2].klass = "GoHome" /\ store[2].start = 60000
    /\ store[3].klass = "Task" /\ store[3].start = 120000
    /\ report(store).lines[1].delta = 60000
    /\ ~report(store).lines[1].synthetic

====
